---- MODULE Spec2Model ----
(***************************************************************************)
(* Model of Challenge_1a/process_pdfs.py: the outline extraction           *)
(* (extract_outline and its helpers) and the batch loop                    *)
(* (process_pdfs_in_directory).                                            *)
(*                                                                         *)
(* A text is a sequence of one-character strings.  A font size is an       *)
(* integer number of tenths of a point (11.5pt is 115), so that Python's   *)
(* round() of a size is a real conversion.                                 *)
(***************************************************************************)
EXTENDS Integers, Sequences, FiniteSets, TLC

\* ------------------------------------------------------------------------
\* Program constants (process_pdfs.py lines 9-13)
\* ------------------------------------------------------------------------
MAX_PAGES == 50
MIN_STYLE_FREQUENCY == 100
MAX_HEADING_LENGTH == 250
\* TITLE_SEARCH_RATIO = 0.5, kept as the fraction 1/2
TITLE_SEARCH_RATIO_NUM == 1
TITLE_SEARCH_RATIO_DEN == 2

\* ------------------------------------------------------------------------
\* Characters and Python's str operations
\* ------------------------------------------------------------------------
\* The no-break space U+00A0, one character
NBSP == "NBSP"

\* str.isspace() / regex \s (Unicode): U+00A0 is whitespace too
Spaces == {" ", "\t", "\n", NBSP}

\* regex \d
Digits == {"0", "1", "2", "3", "4", "5", "6", "7", "8", "9"}

UpperChars == <<"A", "B", "C", "D", "E", "F", "G", "H", "I", "J", "K", "L", "M",
                "N", "O", "P", "Q", "R", "S", "T", "U", "V", "W", "X", "Y", "Z">>

LowerChars == <<"a", "b", "c", "d", "e", "f", "g", "h", "i", "j", "k", "l", "m",
                "n", "o", "p", "q", "r", "s", "t", "u", "v", "w", "x", "y", "z">>

\* regex [A-Z]
Uppers == {UpperChars[i] : i \in 1..26}

\* str.lower() of one character
LowerChar(c) ==
    IF c \in Uppers
    THEN LowerChars[CHOOSE i \in 1..26 : UpperChars[i] = c]
    ELSE c

\* str.lower()
Lower(t) == [i \in 1..Len(t) |-> LowerChar(t[i])]

\* Number of consecutive characters of class cls in t from position i on
RECURSIVE RunFrom(_, _, _)
RunFrom(t, i, cls) ==
    IF i > Len(t) \/ t[i] \notin cls THEN 0 ELSE 1 + RunFrom(t, i + 1, cls)

\* Number of consecutive characters of class cls in t from position i backwards
RECURSIVE RunBack(_, _, _)
RunBack(t, i, cls) ==
    IF i < 1 \/ t[i] \notin cls THEN 0 ELSE 1 + RunBack(t, i - 1, cls)

\* str.strip()
Strip(t) ==
    LET lead == RunFrom(t, 1, Spaces)
    IN  IF lead = Len(t) THEN <<>>
        ELSE SubSeq(t, lead + 1, Len(t) - RunBack(t, Len(t), Spaces))

\* str.replace(" ", " ")
ReplaceNbsp(t) == [i \in 1..Len(t) |-> IF t[i] = NBSP THEN " " ELSE t[i]]

\* str.isdigit()
IsDigitStr(t) == Len(t) > 0 /\ \A i \in 1..Len(t) : t[i] \in Digits

\* str.endswith('.')
EndsWithDot(t) == Len(t) > 0 /\ t[Len(t)] = "."

\* len(str.split()): the number of maximal runs of non-whitespace
WordCount(t) ==
    Cardinality({i \in 1..Len(t) :
        t[i] \notin Spaces /\ (i = 1 \/ t[i - 1] \in Spaces)})

\* Concatenation of a sequence of texts with a separator: sep.join(parts)
RECURSIVE Join(_, _)
Join(parts, sep) ==
    IF parts = <<>> THEN <<>>
    ELSE IF Len(parts) = 1 THEN parts[1]
    ELSE parts[1] \o sep \o Join(Tail(parts), sep)

\* " ".join(t.split()): whitespace runs collapse to one space, ends trimmed
NormalizeSpaces(t) ==
    LET s == Strip(t)
        keep == SelectSeq([i \in 1..Len(s) |-> i],
                          LAMBDA i : s[i] \notin Spaces \/ s[i - 1] \notin Spaces)
    IN  [k \in 1..Len(keep) |-> IF s[keep[k]] \in Spaces THEN " " ELSE s[keep[k]]]

\* str.endswith(suffix)
EndsWith(t, suffix) ==
    /\ Len(t) >= Len(suffix)
    /\ SubSeq(t, Len(t) - Len(suffix) + 1, Len(t)) = suffix

\* needle in t (substring test)
Contains(t, needle) ==
    \E i \in 1..(Len(t) - Len(needle) + 1) :
        SubSeq(t, i, i + Len(needle) - 1) = needle

\* ------------------------------------------------------------------------
\* Regular expressions (re.match: anchored at the start, any tail allowed)
\* A pattern is a sequence of tokens; a token matches between lo and hi
\* characters of class cls, or is the end anchor $.
\* ------------------------------------------------------------------------
Tok(cls, lo, hi) ==
    [cls |-> cls, lo |-> lo, hi |-> hi, many |-> FALSE, end |-> FALSE]

\* x+ : one or more characters of class cls, no upper limit
Plus(cls) == [cls |-> cls, lo |-> 1, hi |-> 1, many |-> TRUE, end |-> FALSE]

\* A literal character
Lit(c) == Tok({c}, 1, 1)

\* Several literal characters in a row
Lits(t) == [i \in 1..Len(t) |-> Lit(t[i])]

\* $ : the end of the text, or just before a final newline
EndTok == [cls |-> {}, lo |-> 0, hi |-> 0, many |-> FALSE, end |-> TRUE]

\* \d+
DigitsPlus == Plus(Digits)

\* \s+
SpacesPlus == Plus(Spaces)

\* \s
OneSpace == Tok(Spaces, 1, 1)

\* \.
Dot == Lit(".")

AtEnd(t, i) == i = Len(t) + 1 \/ (i = Len(t) /\ t[i] = "\n")

Smaller(a, b) == IF a < b THEN a ELSE b

\* Do the tokens k.. of pat match t from position i on (with backtracking)
RECURSIVE MatchFrom(_, _, _, _)
MatchFrom(t, i, pat, k) ==
    IF k > Len(pat) THEN TRUE
    ELSE IF pat[k].end THEN AtEnd(t, i) /\ MatchFrom(t, i, pat, k + 1)
    ELSE LET run == RunFrom(t, i, pat[k].cls)
              most == IF pat[k].many THEN run ELSE Smaller(pat[k].hi, run)
         IN  \E n \in pat[k].lo .. most : MatchFrom(t, i + n, pat, k + 1)

\* re.match(pat, t)
ReMatch(pat, t) == MatchFrom(t, 1, pat, 1)

\* r"^\d+\.\s"
PatNumbered1 == <<DigitsPlus, Dot, OneSpace>>

\* r"^\d+\.\d+\s"
PatNumbered2 == <<DigitsPlus, Dot, DigitsPlus, OneSpace>>

\* r"^\d+\.\d+\.\d+\s"
PatNumbered3 == <<DigitsPlus, Dot, DigitsPlus, Dot, DigitsPlus, OneSpace>>

\* r"^\d+\.\d+\.\d+\.\d+\s"
PatNumbered4 ==
    <<DigitsPlus, Dot, DigitsPlus, Dot, DigitsPlus, Dot, DigitsPlus, OneSpace>>

\* r"^\d+\.\d+\s+\d{1,2}\s+[A-Z]{3,9}\s+\d{4}\s+"
PatRevision ==
    <<DigitsPlus, Dot, DigitsPlus, SpacesPlus, Tok(Digits, 1, 2), SpacesPlus,
      Tok(Uppers, 3, 9), SpacesPlus, Tok(Digits, 4, 4), SpacesPlus>>

\* r"(?i)^version\s+\d+(\.\d+)?$", on the lower-cased text; both readings of
\* the optional group
PatVersionShort ==
    Lits(<<"v", "e", "r", "s", "i", "o", "n">>) \o <<SpacesPlus, DigitsPlus, EndTok>>

PatVersionLong ==
    Lits(<<"v", "e", "r", "s", "i", "o", "n">>)
        \o <<SpacesPlus, DigitsPlus, Dot, DigitsPlus, EndTok>>

MonthNames ==
    { <<"J", "a", "n", "u", "a", "r", "y">>,
      <<"F", "e", "b", "r", "u", "a", "r", "y">>,
      <<"M", "a", "r", "c", "h">>,
      <<"A", "p", "r", "i", "l">>,
      <<"M", "a", "y">>,
      <<"J", "u", "n", "e">>,
      <<"J", "u", "l", "y">>,
      <<"A", "u", "g", "u", "s", "t">>,
      <<"S", "e", "p", "t", "e", "m", "b", "e", "r">>,
      <<"O", "c", "t", "o", "b", "e", "r">>,
      <<"N", "o", "v", "e", "m", "b", "e", "r">>,
      <<"D", "e", "c", "e", "m", "b", "e", "r">> }

\* r"^(January|...|December)\s+\d{1,2},\s+\d{4}$" for one month name
PatDate(month) ==
    Lits(month) \o <<SpacesPlus, Tok(Digits, 1, 2), Lit(","), SpacesPlus,
                     Tok(Digits, 4, 4), EndTok>>

\* The date filter of extract_outline
IsFullDate(text) == \E m \in MonthNames : ReMatch(PatDate(m), text)

\* The value None
None == "None"

\* Faulty variant: the level is one more than the number of dots, so that
\* "N. " gives H2
classify_by_numbering_by_dots(text) ==
    IF ReMatch(PatNumbered1, text) THEN "H2"
    ELSE IF ReMatch(PatNumbered2, text) THEN "H2"
    ELSE IF ReMatch(PatNumbered3, text) THEN "H3"
    ELSE IF ReMatch(PatNumbered4, text) THEN "H4"
    ELSE None

\* classify_by_numbering(text)
classify_by_numbering(text) ==
    IF ReMatch(PatNumbered1, text) THEN "H1"
    ELSE IF ReMatch(PatNumbered2, text) THEN "H2"
    ELSE IF ReMatch(PatNumbered3, text) THEN "H3"
    ELSE IF ReMatch(PatNumbered4, text) THEN "H4"
    ELSE None

\* is_revision_or_version_header(text)
is_revision_or_version_header(text) ==
    \/ ReMatch(PatRevision, text)
    \/ ReMatch(PatVersionShort, Lower(Strip(text)))
    \/ ReMatch(PatVersionLong, Lower(Strip(text)))

\* ------------------------------------------------------------------------
\* Spans, styles and blocks (the "dict" output of page.get_text)
\*   span  : [text, size (tenths of a point), flags, font]
\*   line  : [spans]
\*   block : [bbox = <<x0, y0, x1, y1>>, has_lines, lines]
\*           has_lines is FALSE for a block without a "lines" key (an image)
\*   doc   : [readable, page_count, height (of page 0), pages]
\* ------------------------------------------------------------------------

\* Python's round() of a size given in tenths: half rounds to even
PyRound(tenths) ==
    LET q == tenths \div 10
        r == tenths % 10
    IN  IF r < 5 THEN q
        ELSE IF r > 5 THEN q + 1
        ELSE IF q % 2 = 0 THEN q ELSE q + 1

\* (flags & 2**4) > 0
IsBold(flags) == (flags \div 16) % 2 = 1

\* (round(s['size']), (s['flags'] & 2**4) > 0, s['font'])
StyleOf(s) == <<PyRound(s.size), IsBold(s.flags), s.font>>

\* Python's order on tuples of numbers of one length: lexicographic
TupleLess(a, b) ==
    \E i \in 1..Len(a) : a[i] < b[i] /\ \A j \in 1..(i - 1) : a[j] = b[j]

\* list.sort(key=...): a stable sort.  keys[k] is the key of seq[k], a
\* tuple; elements of equal keys keep their order.
StableSort(seq, keys) ==
    LET rank(k) == Cardinality({ j \in 1..Len(seq) :
                        \/ TupleLess(keys[j], keys[k])
                        \/ (~TupleLess(keys[k], keys[j]) /\ j < k) })
    IN  [r \in 1..Len(seq) |-> seq[CHOOSE k \in 1..Len(seq) : rank(k) = r - 1]]

\* All the elements of a sequence of sequences, in order
RECURSIVE Flatten(_)
Flatten(seqs) == IF seqs = <<>> THEN <<>> ELSE seqs[1] \o Flatten(Tail(seqs))

\* The spans of a block in reading order; none for a block without lines
SpansOf(b) ==
    IF b.has_lines THEN Flatten([i \in 1..Len(b.lines) |-> b.lines[i].spans])
    ELSE <<>>

\* The spans of a sequence of blocks
SpansOfBlocks(blocks) == Flatten([i \in 1..Len(blocks) |-> SpansOf(blocks[i])])

\* A style-count table is a dict in insertion order: a sequence of
\* [style, count] with distinct styles
HasStyle(table, style) == \E i \in 1..Len(table) : table[i].style = style

\* style_counts[style_key] += n   (defaultdict(int))
AddCount(table, style, n) ==
    IF HasStyle(table, style)
    THEN [i \in 1..Len(table) |->
            IF table[i].style = style
            THEN [style |-> style, count |-> table[i].count + n]
            ELSE table[i]]
    ELSE Append(table, [style |-> style, count |-> n])

RECURSIVE CountSpans(_, _, _)
CountSpans(spans, k, table) ==
    IF k > Len(spans) THEN table
    ELSE LET text == Strip(spans[k].text)
         IN  CountSpans(spans, k + 1,
                IF text # <<>>
                THEN AddCount(table, StyleOf(spans[k]), Len(text))
                ELSE table)

\* get_style_statistics(doc)
get_style_statistics(d) == CountSpans(SpansOfBlocks(Flatten(d.pages)), 1, <<>>)

\* max(table, key=table.get): the first key of the largest count
ArgMaxFirst(table) ==
    LET best == CHOOSE i \in 1..Len(table) :
                    /\ \A j \in 1..Len(table) : table[j].count <= table[i].count
                    /\ \A j \in 1..(i - 1) : table[j].count < table[i].count
    IN  table[best].style

levels == <<"H1", "H2", "H3", "H4", "H5">>

\* The empty dict {}
EmptyMap == [st \in {} |-> "H1"]

\* Faulty variant: sorted(sizes) without reverse=True
SortedAscending(sizes) ==
    [i \in 1..Cardinality(sizes) |->
        CHOOSE x \in sizes : Cardinality({y \in sizes : y < x}) = i - 1]

\* sorted(sizes, reverse=True)
SortedDescending(sizes) ==
    LET asSeq == [i \in 1..Cardinality(sizes) |->
                    CHOOSE x \in sizes :
                        Cardinality({y \in sizes : y > x}) = i - 1]
    IN  asSeq

\* classify_heading_levels(style_counts): [heading_map, body_style]
classify_heading_levels(table) ==
    IF table = <<>> THEN [heading_map |-> EmptyMap, body_style |-> None]
    ELSE
    LET frequent_styles == SelectSeq(table, LAMBDA e : e.count > MIN_STYLE_FREQUENCY)
        body_style == IF frequent_styles # <<>> THEN ArgMaxFirst(frequent_styles)
                      ELSE ArgMaxFirst(table)
        body_size == body_style[1]
        heading_candidates ==
            { table[i].style : i \in { j \in 1..Len(table) :
                LET st == table[j].style
                IN  /\ st # body_style
                    /\ (st[1] > body_size \/ (st[2] /\ st[1] >= body_size))
                    /\ ~Contains(Lower(st[3]), <<"i", "t", "a", "l", "i", "c">>) } }
        distinct_sizes == SortedDescending({ st[1] : st \in heading_candidates })
        mapped == { st \in heading_candidates :
                    \E i \in 1..Len(distinct_sizes) :
                        i <= Len(levels) /\ distinct_sizes[i] = st[1] }
    IN  [heading_map |->
            [st \in mapped |->
                levels[CHOOSE i \in 1..Len(distinct_sizes) : distinct_sizes[i] = st[1]]],
         body_style |-> body_style]

\* get_full_block_text(block)
get_full_block_text(b) ==
    LET lines_text ==
            IF b.has_lines
            THEN [i \in 1..Len(b.lines) |->
                    Flatten([k \in 1..Len(b.lines[i].spans) |->
                        IF Strip(b.lines[i].spans[k].text) # <<>>
                        THEN b.lines[i].spans[k].text
                        ELSE <<>>])]
            ELSE <<>>
    IN  ReplaceNbsp(Strip(Join(lines_text, <<" ">>)))

\* ------------------------------------------------------------------------
\* extract_outline, step by step
\* ------------------------------------------------------------------------

\* enumerate(doc) with each page's blocks: [page_num (0-based), b], in the
\* order the heading walk visits them
WalkList(d) ==
    Flatten([p \in 1..Len(d.pages) |->
        [i \in 1..Len(d.pages[p]) |-> [page_num |-> p - 1, b |-> d.pages[p][i]]]])

\* Lines 107-115: the style of the first span of the largest size
RECURSIVE LargestFrom(_, _, _, _)
LargestFrom(spans, k, max_size, style) ==
    IF k > Len(spans) THEN style
    ELSE IF spans[k].size > max_size
         THEN LargestFrom(spans, k + 1, spans[k].size, StyleOf(spans[k]))
         ELSE LargestFrom(spans, k + 1, max_size, style)

\* title_style = None, kept as the empty tuple (a style tuple is never empty)
NoStyle == <<>>

title_style_of(first_page_blocks) ==
    LargestFrom(SpansOfBlocks(first_page_blocks), 1, 0, NoStyle)

\* b["lines"][0]["spans"] exists and is not empty
HasFirstSpan(b) == b.has_lines /\ b.lines # <<>> /\ b.lines[1].spans # <<>>

\* Lines 120-125: is block b of the first page taken as part of the title
IsTitleBlock(b, height, title_style) ==
    /\ ~(b.bbox[2] * TITLE_SEARCH_RATIO_DEN > height * TITLE_SEARCH_RATIO_NUM)
    /\ HasFirstSpan(b)
    /\ StyleOf(b.lines[1].spans[1]) = title_style

\* Lines 117-129: the title blocks, sorted by their top edge
title_blocks_of(d) ==
    LET first_page_blocks == d.pages[1]
        title_style == title_style_of(first_page_blocks)
    IN  IF title_style = NoStyle THEN <<>>
        ELSE LET found == SelectSeq(first_page_blocks,
                     LAMBDA b : IsTitleBlock(b, d.height, title_style))
             IN  StableSort(found,
                            [k \in 1..Len(found) |-> <<found[k].bbox[2]>>])

\* Faulty variant: the title blocks are not marked as processed
TitleBboxesForgotten(d) == {}

\* Line 127: the bounding boxes the title detection marks as processed
TitleBboxes(d) ==
    IF d.page_count > 0
    THEN LET tb == title_blocks_of(d) IN { tb[i].bbox : i \in 1..Len(tb) }
    ELSE {}

\* Line 130: the detected title
TitleText(d) ==
    IF d.page_count > 0
    THEN LET tb == title_blocks_of(d)
         IN  Join([i \in 1..Len(tb) |-> get_full_block_text(tb[i])], <<" ">>)
    ELSE <<>>

\* Lines 142-149: the rejection filters
Rejected(block_text) ==
    \/ block_text = <<>>
    \/ Len(block_text) > MAX_HEADING_LENGTH
    \/ IsDigitStr(Strip(block_text))
    \/ (EndsWithDot(block_text) /\ WordCount(block_text) > 10)
    \/ IsFullDate(block_text)
    \/ is_revision_or_version_header(block_text)

\* Faulty variant: the style is looked up before the numbering prefix
ResolveLevelStyleFirst(block_text, block_style, heading_level_map) ==
    IF block_style \in DOMAIN heading_level_map
    THEN heading_level_map[block_style]
    ELSE classify_by_numbering(block_text)

\* Lines 151-157: the level of a block that passed the filters, or None
ResolveLevel(block_text, block_style, heading_level_map) ==
    LET numbered_level == classify_by_numbering(block_text)
    IN  IF numbered_level # None THEN numbered_level
        ELSE IF block_style \in DOMAIN heading_level_map
             THEN heading_level_map[block_style]
             ELSE None

\* Line 169: level_priority.get(level, 99)
level_priority(level) ==
    CASE level = "H1" -> 1
      [] level = "H2" -> 2
      [] level = "H3" -> 3
      [] level = "H4" -> 4
      [] level = "H5" -> 5
      [] OTHER -> 99

\* Line 170: the sort key (level priority, page, y_pos)
SortKey(item) == <<level_priority(item.level), item.page, item.y_pos>>

\* Faulty variant: the candidates are sorted in reading order, page then
\* vertical position, without the level
SortOutlineReadingOrder(items) ==
    StableSort(items,
               [k \in 1..Len(items) |-> <<items[k].page, items[k].y_pos>>])

\* Line 170: outline_with_pos.sort(key=...)
SortOutline(items) ==
    StableSort(items, [k \in 1..Len(items) |-> SortKey(items[k])])

\* Line 175: the deduplication key
DedupKey(item) == <<item.text, item.page>>

\* Lines 172-178: the items kept, first of each key
RECURSIVE DedupFrom(_, _, _, _)
DedupFrom(items, k, seen_headings, final) ==
    IF k > Len(items) THEN final
    ELSE IF DedupKey(items[k]) \notin seen_headings
         THEN DedupFrom(items, k + 1, seen_headings \cup {DedupKey(items[k])},
                        Append(final, items[k]))
         ELSE DedupFrom(items, k + 1, seen_headings, final)

\* Faulty variant: nothing is dropped
DedupNothing(items) == items

Dedup(items) == DedupFrom(items, 1, {}, <<>>)

\* Line 177: the item without its y_pos
StripPos(item) == [level |-> item.level, text |-> item.text, page |-> item.page]

\* Lines 180-183: the title after the fallback to the first H1
TitleFallback(title, final_outline) ==
    LET h1s == SelectSeq(final_outline, LAMBDA h : h.level = "H1")
    IN  IF title = <<>> /\ final_outline # <<>> /\ h1s # <<>>
        THEN h1s[1].text
        ELSE title

\* What extract_outline returns: None, or the dict of lines 189-192
ReturnNone == [none |-> TRUE, title |-> <<>>, outline |-> <<>>]

ReturnDict(title, final_outline) ==
    [none |-> FALSE, title |-> NormalizeSpaces(title), outline |-> final_outline]

\* Line 203, "if structured_outline:": None is false, a dict of two keys true
Truthy(structured_outline) == ~structured_outline.none

\* Line 199: filename.lower().endswith(".pdf")
IsPdfName(filename) == EndsWith(Lower(filename), <<".", "p", "d", "f">>)

\* ------------------------------------------------------------------------
\* Input documents
\* ------------------------------------------------------------------------
FontRegular == <<"A", "r", "i", "a", "l">>

FontBold == <<"A", "r", "i", "a", "l", "-", "B", "o", "l", "d">>


Span(text, size, flags, font) ==
    [text |-> text, size |-> size, flags |-> flags, font |-> font]

\* 11pt regular: the running text
BodySpan(text) == Span(text, 110, 0, FontRegular)

\* 24pt bold
BigSpan(text) == Span(text, 240, 16, FontBold)

\* 14pt bold, with the serif bit set as well (flags 16 + 4)
MidSpan(text) == Span(text, 140, 20, FontBold)

\* 11.5pt regular, which rounds to 12
HalfPointSpan(text) == Span(text, 115, 0, FontRegular)

\* A block of the given lines with its top edge at y0
Block(y0, lines) ==
    [bbox |-> <<72, y0, 540, y0 + 30>>, has_lines |-> TRUE, lines |-> lines]

\* A block of one line of one span
OneSpanBlock(y0, span) == Block(y0, <<[spans |-> <<span>>]>>)

\* An image block: no "lines" key
ImageBlock(y0) == [bbox |-> <<72, y0, 540, y0 + 30>>, has_lines |-> FALSE, lines |-> <<>>]

TxtProject == <<"P", "r", "o", "j", "e", "c", "t">>

TxtPlan == <<"P", "l", "a", "n">>


TxtOverview == <<"2", ".", " ", "O", "v", "e", "r", "v", "i", "e", "w">>

TxtScope == <<"2", ".", "1", " ", "S", "c", "o", "p", "e">>

TxtGoals == <<"1", ".", "1", ".", "1", " ", "G", "o", "a", "l", "s">>

TxtNotes == <<"1", ".", "1", ".", "1", ".", "1", " ", "N", "o", "t", "e", "s">>

TxtConclusion == <<"C", "o", "n", "c", "l", "u", "s", "i", "o", "n">>

TxtIntroduction == <<"I", "n", "t", "r", "o", "d", "u", "c", "t", "i", "o", "n">>

TxtDate == <<"M", "a", "r", "c", "h", " ", "3", ",", " ", "2", "0", "2", "4">>



TxtBlank == <<" ">>

\* A paragraph of running text, too long for a heading
TxtParagraph == [i \in 1..(MAX_HEADING_LENGTH + 1) |-> IF i % 6 = 0 THEN " " ELSE "x"]

\* The largest number of text blocks of a document
MaxBlocks == 3

\* The number of entries of the input directory
MaxFiles == 2

\* The blocks a document is made of, as [page (1-based), b], in page order.
\* The first page is 800 high: a top edge of at most 400 is in its top half.
BlockPool ==
    << [page |-> 1, b |-> Block(80, <<[spans |-> <<BigSpan(TxtProject)>>],
                                      [spans |-> <<BigSpan(TxtPlan)>>]>>)],
       [page |-> 1, b |-> OneSpanBlock(240, BigSpan(TxtBlank))],
       [page |-> 1, b |-> OneSpanBlock(320, BigSpan(TxtNotes))],
       [page |-> 1, b |-> OneSpanBlock(400, BigSpan(TxtBlank))],
       [page |-> 1, b |-> OneSpanBlock(480, BigSpan(TxtConclusion))],
       [page |-> 1, b |-> OneSpanBlock(560, BodySpan(TxtOverview))],
       [page |-> 1, b |-> Block(600, <<[spans |-> <<>>],
                                       [spans |-> <<BigSpan(TxtConclusion)>>]>>)],
       [page |-> 1, b |-> OneSpanBlock(640, BigSpan(TxtScope))],
       [page |-> 1, b |-> OneSpanBlock(720, BodySpan(TxtParagraph))],
       [page |-> 2, b |-> OneSpanBlock(160, BigSpan(TxtConclusion))],
       [page |-> 2, b |-> OneSpanBlock(200, HalfPointSpan(TxtIntroduction))],
       [page |-> 2, b |-> OneSpanBlock(300, MidSpan(TxtConclusion))],
       [page |-> 2, b |-> OneSpanBlock(360, BodySpan(TxtGoals))],
       [page |-> 2, b |-> OneSpanBlock(480, BigSpan(TxtConclusion))],
       [page |-> 2, b |-> OneSpanBlock(520, BigSpan(TxtDate))],
       [page |-> 2, b |-> ImageBlock(700)] >>

\* The document made of the pool blocks chosen, on as many pages as they need
DocOf(chosen) ==
    LET last == IF \E i \in chosen : BlockPool[i].page = 2 THEN 2 ELSE 1
        onPage(p) == SelectSeq([i \in 1..Len(BlockPool) |-> i],
                               LAMBDA i : i \in chosen /\ BlockPool[i].page = p)
    IN  [readable |-> TRUE, page_count |-> last, height |-> 800,
         pages |-> [p \in 1..last |->
                      [k \in 1..Len(onPage(p)) |-> BlockPool[onPage(p)[k]].b]]]

\* The same document followed by empty pages, n pages in all
PadTo(n, d) ==
    [d EXCEPT !.page_count = n,
              !.pages = [p \in 1..n |-> IF p <= Len(d.pages) THEN d.pages[p] ELSE <<>>]]

\* A file fitz.open cannot open
UnreadableDoc == [readable |-> FALSE, page_count |-> 0, height |-> 0, pages |-> <<>>]

\* A document without pages
EmptyDoc == [readable |-> TRUE, page_count |-> 0, height |-> 0, pages |-> <<>>]

SmallDocs ==
    { DocOf(chosen) : chosen \in
        { c \in SUBSET (1..Len(BlockPool)) : Cardinality(c) <= MaxBlocks } }

\* Documents at and just over the page limit
LongDocs ==
    { PadTo(n, DocOf(chosen)) :
        n \in {MAX_PAGES, MAX_PAGES + 1}, chosen \in {{}, {6}, {6, 14}} }

Docs == SmallDocs \cup LongDocs \cup {UnreadableDoc, EmptyDoc}

FileNames == { <<"r", "e", "p", "o", "r", "t", ".", "P", "D", "F">>, <<"n", "o", "t", "e", "s", ".", "t", "x", "t">> }

\* os.listdir(input_dir)
Listings == [1..MaxFiles -> FileNames]

\* ------------------------------------------------------------------------
\* State
\* ------------------------------------------------------------------------
VARIABLES
    listing,            \* os.listdir(input_dir)
    idx,                \* position of the batch loop in the listing
    pc,                 \* where the program is
    doc,                \* the document being processed
    style_counts,       \* extract_outline's locals
    heading_level_map,
    title,
    processed_bboxes,
    outline_with_pos,
    pos,                \* position of the heading walk in WalkList(doc)
    result,             \* structured_outline
    artifacts,          \* positions of the entries whose .json was written
    walked,             \* history: what the walk did with each block
    kept                \* history: the items deduplication kept, with y_pos

vars == <<listing, idx, pc, doc, style_counts, heading_level_map, title,
          processed_bboxes, outline_with_pos, pos, result, artifacts, walked, kept>>

NoDoc == EmptyDoc

\* The locals of extract_outline before a call
FreshLocals ==
    /\ doc = NoDoc
    /\ style_counts = <<>>
    /\ heading_level_map = EmptyMap
    /\ title = <<>>
    /\ processed_bboxes = {}
    /\ outline_with_pos = <<>>
    /\ pos = 0
    /\ result = ReturnNone
    /\ walked = <<>>
    /\ kept = <<>>

Init ==
    /\ listing \in Listings
    /\ idx = 1
    /\ pc = "loop"
    /\ artifacts = {}
    /\ FreshLocals

\* Line 198-199: an entry that is no PDF is passed over
SkipEntry ==
    /\ pc = "loop"
    /\ idx <= Len(listing)
    /\ ~IsPdfName(listing[idx])
    /\ idx' = idx + 1
    /\ UNCHANGED <<listing, pc, doc, style_counts, heading_level_map, title,
                   processed_bboxes, outline_with_pos, pos, result, artifacts,
                   walked, kept>>

\* Lines 202, 87-96: extract_outline is called; the open and the page limit
OpenDocument ==
    /\ pc = "loop"
    /\ idx <= Len(listing)
    /\ IsPdfName(listing[idx])
    /\ \E d \in Docs :
        /\ doc' = d
        /\ IF ~d.readable \/ d.page_count > MAX_PAGES
           THEN /\ result' = ReturnNone
                /\ pc' = "returned"
           ELSE /\ result' = result
                /\ pc' = "profile"
    /\ UNCHANGED <<listing, idx, style_counts, heading_level_map, title,
                   processed_bboxes, outline_with_pos, pos, artifacts, walked, kept>>

\* Lines 98-99: the style statistics and the heading-level map
ProfileStyles ==
    /\ pc = "profile"
    /\ style_counts' = get_style_statistics(doc)
    /\ heading_level_map' = classify_heading_levels(style_counts').heading_map
    /\ pc' = "title"
    /\ UNCHANGED <<listing, idx, doc, title, processed_bboxes, outline_with_pos,
                   pos, result, artifacts, walked, kept>>

\* Lines 101-130: the title detection
DetectTitle ==
    /\ pc = "title"
    /\ title' = TitleText(doc)
    /\ processed_bboxes' = TitleBboxes(doc)
    /\ pos' = 1
    /\ pc' = "walk"
    /\ UNCHANGED <<listing, idx, doc, style_counts, heading_level_map,
                   outline_with_pos, result, artifacts, walked, kept>>

\* Lines 134-165: one block of the heading walk
WalkBlock ==
    /\ pc = "walk"
    /\ pos <= Len(WalkList(doc))
    /\ LET page_num == WalkList(doc)[pos].page_num
           b == WalkList(doc)[pos].b
           bbox == b.bbox
       IN  IF ~b.has_lines \/ b.lines = <<>> \/ bbox \in processed_bboxes
           THEN \* line 137: continue
                /\ walked' = Append(walked,
                      [fate |-> IF bbox \in processed_bboxes THEN "processed"
                                ELSE "nolines", level |-> None])
                /\ pos' = pos + 1
                /\ UNCHANGED <<pc, outline_with_pos, processed_bboxes>>
           ELSE IF b.lines[1].spans = <<>>
           THEN \* line 139: IndexError, which nothing catches
                /\ pc' = "aborted"
                /\ UNCHANGED <<pos, walked, outline_with_pos, processed_bboxes>>
           ELSE LET span == b.lines[1].spans[1]
                    block_style == StyleOf(span)
                    block_text == get_full_block_text(b)
                    level == ResolveLevel(block_text, block_style, heading_level_map)
                IN  IF Rejected(block_text)
                    THEN /\ walked' = Append(walked, [fate |-> "rejected", level |-> None])
                         /\ pos' = pos + 1
                         /\ UNCHANGED <<pc, outline_with_pos, processed_bboxes>>
                    ELSE IF level = None
                    THEN /\ walked' = Append(walked, [fate |-> "nolevel", level |-> None])
                         /\ pos' = pos + 1
                         /\ UNCHANGED <<pc, outline_with_pos, processed_bboxes>>
                    ELSE /\ outline_with_pos' = Append(outline_with_pos,
                               [level |-> level, text |-> block_text,
                                page |-> page_num + 1, y_pos |-> b.bbox[2]])
                         /\ processed_bboxes' = processed_bboxes \cup {bbox}
                         /\ walked' = Append(walked, [fate |-> "emitted", level |-> level])
                         /\ pos' = pos + 1
                         /\ UNCHANGED pc
    /\ UNCHANGED <<listing, idx, doc, style_counts, heading_level_map, title,
                   result, artifacts, kept>>

\* Lines 167-192: sort, deduplicate, title fallback, return
Assemble ==
    /\ pc = "walk"
    /\ pos > Len(WalkList(doc))
    /\ outline_with_pos' = SortOutline(outline_with_pos)
    /\ kept' = Dedup(outline_with_pos')
    /\ LET final_outline == [i \in 1..Len(kept') |-> StripPos(kept'[i])]
       IN  /\ title' = TitleFallback(title, final_outline)
           /\ result' = ReturnDict(title', final_outline)
    /\ pc' = "returned"
    /\ UNCHANGED <<listing, idx, doc, style_counts, heading_level_map,
                   processed_bboxes, pos, artifacts, walked>>

\* Lines 203-209: the artifact is written when the result is truthy
WriteArtifact ==
    /\ pc = "returned"
    /\ artifacts' = IF Truthy(result) THEN artifacts \cup {idx} ELSE artifacts
    /\ pc' = "written"
    /\ UNCHANGED <<listing, idx, doc, style_counts, heading_level_map, title,
                   processed_bboxes, outline_with_pos, pos, result, walked, kept>>

\* Line 198: on to the next entry; the locals of the call are gone
NextEntry ==
    /\ pc = "written"
    /\ idx' = idx + 1
    /\ pc' = "loop"
    /\ doc' = NoDoc
    /\ style_counts' = <<>>
    /\ heading_level_map' = EmptyMap
    /\ title' = <<>>
    /\ processed_bboxes' = {}
    /\ outline_with_pos' = <<>>
    /\ pos' = 0
    /\ result' = ReturnNone
    /\ walked' = <<>>
    /\ kept' = <<>>
    /\ UNCHANGED <<listing, artifacts>>

\* Line 198: the listing is exhausted
Finish ==
    /\ pc = "loop"
    /\ idx > Len(listing)
    /\ pc' = "done"
    /\ UNCHANGED <<listing, idx, doc, style_counts, heading_level_map, title,
                   processed_bboxes, outline_with_pos, pos, result, artifacts,
                   walked, kept>>

Next ==
    \/ SkipEntry
    \/ OpenDocument
    \/ ProfileStyles
    \/ DetectTitle
    \/ WalkBlock
    \/ Assemble
    \/ WriteArtifact
    \/ NextEntry
    \/ Finish

Spec == Init /\ [][Next]_vars

\* ------------------------------------------------------------------------
\* classify_heading_levels on its own: the style-count tables it is given
\* ------------------------------------------------------------------------

\* The number of rounded font sizes a table may hold
NumSizes == 6

FontItalic == <<"A", "r", "i", "a", "l", "-", "B", "o", "l", "d", "I", "t", "a", "l", "i", "c">>

\* What a table holds for one rounded size
SizeOptions == {"absent", "regular", "bold", "both", "italic"}

\* The entries of one size: running text has more than MIN_STYLE_FREQUENCY
\* characters, emphasised text fewer
EntriesFor(size, option) ==
    LET regular == [style |-> <<size, FALSE, FontRegular>>,
                    count |-> MIN_STYLE_FREQUENCY + 50]
        bold    == [style |-> <<size, TRUE, FontBold>>, count |-> 40]
        italic  == [style |-> <<size, TRUE, FontItalic>>, count |-> 90]
    IN  CASE option = "regular" -> <<regular>>
          [] option = "bold"    -> <<bold>>
          [] option = "both"    -> <<regular, bold>>
          [] option = "italic"  -> <<italic>>
          [] OTHER              -> <<>>

Reverse(seq) == [i \in 1..Len(seq) |-> seq[Len(seq) + 1 - i]]

\* The tables: one option per size from 9pt up, first seen in ascending or in
\* descending order of size
StyleTables ==
    { IF reversed THEN Reverse(t) ELSE t :
        reversed \in BOOLEAN,
        t \in { Flatten([i \in 1..NumSizes |-> EntriesFor(8 + i, choice[i])]) :
                choice \in [1..NumSizes -> SizeOptions] } }

InitClassify ==
    /\ listing = <<>>
    /\ idx = 1
    /\ pc = "classify"
    /\ artifacts = {}
    /\ doc = NoDoc
    /\ style_counts \in StyleTables
    /\ heading_level_map = EmptyMap
    /\ title = <<>>
    /\ processed_bboxes = {}
    /\ outline_with_pos = <<>>
    /\ pos = 0
    /\ result = ReturnNone
    /\ walked = <<>>
    /\ kept = <<>>

\* Line 99: heading_level_map, _ = classify_heading_levels(style_counts)
ClassifyTable ==
    /\ pc = "classify"
    /\ heading_level_map' = classify_heading_levels(style_counts).heading_map
    /\ pc' = "classified"
    /\ UNCHANGED <<listing, idx, doc, style_counts, title, processed_bboxes,
                   outline_with_pos, pos, result, artifacts, walked, kept>>

NextClassify == ClassifyTable

SpecClassify == InitClassify /\ [][NextClassify]_vars

\* ------------------------------------------------------------------------
\* Properties
\* ------------------------------------------------------------------------

\* The blocks of the current document in walk order
WL == WalkList(doc)

\* Position of a level in H1..H5
LevelIndex(level) == CHOOSE i \in 1..5 : <<"H1", "H2", "H3", "H4", "H5">>[i] = level

\* The text starts with a numbering prefix of depth k followed by whitespace:
\* "N." for depth 1, k dot-separated numbers for depth 2 to 4
HasNumberPrefix(text, k) ==
    \E e \in 2..Len(text) :
        /\ text[e] \in Spaces
        /\ \A i \in 1..(e - 1) : text[i] \in Digits \cup {"."}
        /\ text[1] \in Digits
        /\ \A i \in 1..(e - 2) : ~(text[i] = "." /\ text[i + 1] = ".")
        /\ LET dots == Cardinality({i \in 1..(e - 1) : text[i] = "."})
           IN  IF k = 1 THEN dots = 1 /\ text[e - 1] = "."
               ELSE dots = k - 1 /\ text[e - 1] \in Digits

\* The style of the largest span of the first page (the first one of that size)
LargestSpanStyle(d) ==
    LET spans == SpansOfBlocks(d.pages[1])
        first == CHOOSE k \in 1..Len(spans) :
                    /\ \A j \in 1..Len(spans) : spans[j].size <= spans[k].size
                    /\ \A j \in 1..(k - 1) : spans[j].size < spans[k].size
    IN  StyleOf(spans[first])

\* Block i of the walk is a first-page block that the title detection selects:
\* top edge within the top half, first span in the style of the largest span
TitleSelected(i) ==
    /\ WL[i].page_num = 0
    /\ 2 * WL[i].b.bbox[2] <= doc.height
    /\ HasFirstSpan(WL[i].b)
    /\ StyleOf(WL[i].b.lines[1].spans[1]) = LargestSpanStyle(doc)

\* The style of the first span of block i
FirstStyle(i) == StyleOf(WL[i].b.lines[1].spans[1])

\* The positions, in walk order, of the blocks the walk emitted
EmittedPositions == SelectSeq([i \in 1..Len(walked) |-> i],
                              LAMBDA i : walked[i].fate = "emitted")

\* C2: every block that reaches the filters and passes them gets the level of
\* its numbering prefix (H1 to H4 for depth 1 to 4) whatever its style maps to;
\* only without a prefix is the level the one of its style, and a block with
\* neither is dropped.  The emitted blocks are the candidates, in order.
\* Stated of the block the walk has just decided: every walked block is that
\* block in the state its step leads to, and its record never changes after.
C2_NumberingWins ==
    pc = "walk" =>
        /\ \A i \in {Len(walked)} \ {0} :
            LET text == get_full_block_text(WL[i].b)
            IN  (walked[i].fate \notin {"nolines", "processed"} /\ ~Rejected(text)) =>
                /\ \A k \in 1..4 : HasNumberPrefix(text, k) =>
                        /\ walked[i].fate = "emitted"
                        /\ LevelIndex(walked[i].level) = k
                /\ (\A k \in 1..4 : ~HasNumberPrefix(text, k)) =>
                        IF FirstStyle(i) \in DOMAIN heading_level_map
                        THEN /\ walked[i].fate = "emitted"
                             /\ walked[i].level = heading_level_map[FirstStyle(i)]
                        ELSE walked[i].fate = "nolevel"
        /\ Len(outline_with_pos) = Len(EmittedPositions)
        /\ \A n \in 1..Len(EmittedPositions) :
            LET i == EmittedPositions[n]
            IN  outline_with_pos[n] =
                    [level |-> walked[i].level,
                     text |-> get_full_block_text(WL[i].b),
                     page |-> WL[i].page_num + 1,
                     y_pos |-> WL[i].b.bbox[2]]

\* A block "2.1 ..." whose style maps to another level was emitted
C2_Witness ==
    /\ pc = "walk"
    /\ \E i \in 1..Len(walked) :
        /\ walked[i].fate = "emitted"
        /\ HasNumberPrefix(get_full_block_text(WL[i].b), 2)
        /\ FirstStyle(i) \in DOMAIN heading_level_map
        /\ heading_level_map[FirstStyle(i)] # "H2"
        /\ walked[i].level = "H2"

\* Block i reads "2. Overview" in the body style, which is no heading style,
\* and the walk did not skip it as already processed
OverviewInBodyStyle(i) ==
    /\ get_full_block_text(WL[i].b) = TxtOverview
    /\ HasFirstSpan(WL[i].b)
    /\ FirstStyle(i) = classify_heading_levels(style_counts).body_style
    /\ FirstStyle(i) = <<11, FALSE, FontRegular>>
    /\ FirstStyle(i) \notin DOMAIN heading_level_map
    /\ walked[i].fate # "processed"

HasEntry(level, text, page) ==
    \E n \in 1..Len(result.outline) :
        result.outline[n] = [level |-> level, text |-> text, page |-> page]

\* C3 as stated: a block "2. Overview" in the body style (11pt regular, not in
\* the heading-level map) yields an outline entry of level H2
C3_OverviewIsH2 ==
    (pc = "returned" /\ ~result.none) =>
        \A i \in 1..Len(walked) :
            OverviewInBodyStyle(i) => HasEntry("H2", TxtOverview, WL[i].page_num + 1)

\* C3 amended: a block "2. Overview" in the body style (11pt regular, not in
\* the heading-level map) yields an outline entry of level H1
C3_OverviewIsH1 ==
    (pc = "returned" /\ ~result.none) =>
        \A i \in 1..Len(walked) :
            OverviewInBodyStyle(i) =>
                /\ HasEntry("H1", TxtOverview, WL[i].page_num + 1)
                /\ ~HasEntry("H2", TxtOverview, WL[i].page_num + 1)

\* A document with running text and a block "2. Overview" in its style returned
C3_Witness ==
    /\ pc = "returned"
    /\ ~result.none
    /\ \E i \in 1..Len(walked) : OverviewInBodyStyle(i)
    /\ \E e \in 1..Len(style_counts) :
        /\ style_counts[e].style = <<11, FALSE, FontRegular>>
        /\ style_counts[e].count > MIN_STYLE_FREQUENCY

\* extract_outline has returned a dict for the current document
Returned == pc = "returned" /\ ~result.none

SameKey(a, b) == a.text = b.text /\ a.page = b.page

\* C4: the outline holds no two entries of the same (text, page); every
\* candidate's (text, page) is in it once, and the entry kept is the candidate
\* of that (text, page) with the lowest level index and, among those, the
\* lowest vertical position
C4_DedupKeepsFirst ==
    Returned =>
        /\ \A i, j \in 1..Len(result.outline) :
            SameKey(result.outline[i], result.outline[j]) => i = j
        /\ Len(kept) = Len(result.outline)
        /\ \A c \in 1..Len(outline_with_pos) :
            \E n \in 1..Len(kept) :
                /\ SameKey(kept[n], outline_with_pos[c])
                /\ result.outline[n] = [level |-> kept[n].level,
                                        text |-> kept[n].text,
                                        page |-> kept[n].page]
                /\ \E c2 \in 1..Len(outline_with_pos) : outline_with_pos[c2] = kept[n]
                /\ \/ LevelIndex(kept[n].level) < LevelIndex(outline_with_pos[c].level)
                   \/ /\ kept[n].level = outline_with_pos[c].level
                      /\ kept[n].y_pos <= outline_with_pos[c].y_pos

\* Two candidates of one (text, page) and different levels were deduplicated
C4_Witness ==
    /\ Returned
    /\ Len(result.outline) < Len(outline_with_pos)
    /\ \E a, b \in 1..Len(outline_with_pos) :
        /\ SameKey(outline_with_pos[a], outline_with_pos[b])
        /\ outline_with_pos[a].level # outline_with_pos[b].level

\* a comes no later than b in (level, page, vertical position) order
InOutlineOrder(a, b) ==
    \/ LevelIndex(a.level) < LevelIndex(b.level)
    \/ LevelIndex(a.level) = LevelIndex(b.level) /\ a.page < b.page
    \/ LevelIndex(a.level) = LevelIndex(b.level) /\ a.page = b.page /\ a.y_pos <= b.y_pos

\* The first candidate, in sorted order, of the (text, page) of kept item n
FirstCandidate(n) ==
    CHOOSE c \in 1..Len(outline_with_pos) :
        /\ SameKey(outline_with_pos[c], kept[n])
        /\ \A c2 \in 1..(c - 1) : ~SameKey(outline_with_pos[c2], kept[n])

\* C5: the outline is ordered by level first (all H1 before all H2, ...), then
\* by page, then by vertical position; the entries are the kept candidates
\* without their position, in the relative order the sort gave them
C5_OutlineOrder ==
    Returned =>
        /\ Len(kept) = Len(result.outline)
        /\ \A n \in 1..Len(kept) :
            /\ result.outline[n] = [level |-> kept[n].level, text |-> kept[n].text,
                                    page |-> kept[n].page]
            /\ \E c \in 1..Len(outline_with_pos) : SameKey(outline_with_pos[c], kept[n])
            /\ outline_with_pos[FirstCandidate(n)] = kept[n]
        /\ \A m, n \in 1..Len(kept) :
            m < n => /\ InOutlineOrder(kept[m], kept[n])
                     /\ FirstCandidate(m) < FirstCandidate(n)
        /\ \A a, b \in 1..Len(outline_with_pos) :
            a < b => InOutlineOrder(outline_with_pos[a], outline_with_pos[b])
        /\ Len(outline_with_pos) = Len(EmittedPositions)

\* An H2 of page 1 comes after an H1 of page 2
C5_Witness ==
    /\ Returned
    /\ \E m, n \in 1..Len(result.outline) :
        /\ m < n
        /\ result.outline[m].level = "H1" /\ result.outline[m].page = 2
        /\ result.outline[n].level = "H2" /\ result.outline[n].page = 1

\* Block i of a one-page document is running text: it has the body style and
\* no numbering prefix
BodyBlock(i) ==
    /\ HasFirstSpan(WL[i].b)
    /\ FirstStyle(i) = classify_heading_levels(style_counts).body_style
    /\ \A k \in 1..4 : ~HasNumberPrefix(get_full_block_text(WL[i].b), k)

\* C9: a block the title detection selects is never emitted (the walk skips it
\* as processed); a one-page document whose only block besides running text is
\* such a title block (the running text being no part of the title) returns its
\* text as title and an empty outline
C9_TitleBlocksNotHeadings ==
    /\ pc \in {"walk", "returned"} =>
        \A i \in 1..Len(walked) : TitleSelected(i) => walked[i].fate = "processed"
    /\ Returned =>
        \A t \in 1..Len(WL) :
            ( /\ doc.page_count = 1
              /\ TitleSelected(t)
              /\ ~BodyBlock(t)
              /\ \A i \in 1..Len(WL) : i # t => BodyBlock(i) /\ ~TitleSelected(i) )
            => /\ result.title = NormalizeSpaces(get_full_block_text(WL[t].b))
               /\ result.outline = <<>>

\* Scenario A: "Project Plan" in 24pt bold over a paragraph of running text
C9_Witness ==
    /\ Returned
    /\ doc.page_count = 1
    /\ \E t, i \in 1..Len(WL) :
        /\ TitleSelected(t)
        /\ walked[t].fate = "processed"
        /\ FirstStyle(t) = <<24, TRUE, FontBold>>
        /\ BodyBlock(i)
        /\ Len(WL) = 2
    /\ result.title = TxtProject \o <<" ">> \o TxtPlan
    /\ result.outline = <<>>

\* C1 as stated: two blocks of different pages with the same text, both
\* passing the filters and both resolving to H1, whatever their bounding boxes,
\* are both in the outline, the one of the lower page first
C1_BothPagesKept ==
    Returned =>
        \A i, j \in 1..Len(WL) :
            ( /\ WL[i].page_num < WL[j].page_num
              /\ HasFirstSpan(WL[i].b) /\ HasFirstSpan(WL[j].b)
              /\ ~TitleSelected(i)
              /\ get_full_block_text(WL[i].b) = get_full_block_text(WL[j].b)
              /\ ~Rejected(get_full_block_text(WL[i].b))
              /\ ResolveLevel(get_full_block_text(WL[i].b), FirstStyle(i),
                              heading_level_map) = "H1"
              /\ ResolveLevel(get_full_block_text(WL[j].b), FirstStyle(j),
                              heading_level_map) = "H1" )
            => \E m, n \in 1..Len(result.outline) :
                /\ m < n
                /\ result.outline[m] = [level |-> "H1",
                                        text |-> get_full_block_text(WL[i].b),
                                        page |-> WL[i].page_num + 1]
                /\ result.outline[n] = [level |-> "H1",
                                        text |-> get_full_block_text(WL[j].b),
                                        page |-> WL[j].page_num + 1]

\* C6 as stated: a failure in one document never aborts the batch: when the
\* program stops on a failure, no PDF of the listing is left unprocessed
C6_FailureIsIsolated ==
    pc = "aborted" =>
        \A i \in (idx + 1)..Len(listing) : ~IsPdfName(listing[i])

\* C7 as stated: None is returned, and no artifact written, exactly when the
\* document cannot be opened or has more than 50 pages; every other document
\* yields an artifact
C7_ArtifactUnlessRejected ==
    /\ pc \in {"returned", "written"} =>
        (result.none <=> (~doc.readable \/ doc.page_count > 50))
    /\ pc \in {"written", "aborted"} =>
        (idx \in artifacts <=> (doc.readable /\ doc.page_count <= 50))

\* A text is blank: empty or whitespace only
Blank(text) == \A i \in 1..Len(text) : text[i] \in Spaces

C10_HeadingMapShape ==
    pc = "classified" =>
        LET m == heading_level_map
            used == { m[st] : st \in DOMAIN m }
        IN  /\ Cardinality(used) <= 5
            /\ classify_heading_levels(style_counts).body_style \notin DOMAIN m
            /\ \A st \in DOMAIN m : \E e \in 1..Len(style_counts) : style_counts[e].style = st
            /\ \A a, b \in DOMAIN m :
                /\ a[1] = b[1] => m[a] = m[b]
                /\ a[1] > b[1] => LevelIndex(m[a]) < LevelIndex(m[b])
            /\ \E k \in 0..5 :
                used = { <<"H1", "H2", "H3", "H4", "H5">>[i] : i \in 1..k }

\* Six sizes of heading candidates: five levels in use, two styles share a
\* size, and the smallest candidate has no level
C10_Witness ==
    /\ pc = "classified"
    /\ Cardinality({ heading_level_map[st] : st \in DOMAIN heading_level_map }) = 5
    /\ \E a, b \in DOMAIN heading_level_map : a # b /\ a[1] = b[1]
    /\ \E e \in 1..Len(style_counts) :
        LET st == style_counts[e].style
            body == classify_heading_levels(style_counts).body_style
        IN  /\ st # body
            /\ st[2] /\ st[1] >= body[1]
            /\ st[3] = FontBold
            /\ st \notin DOMAIN heading_level_map

====
